---- MODULE Spec2Model ----
(***************************************************************************)
(* The AutoLav front end (App component and utils/export.js) as a state    *)
(* machine.  The React state of App is the state; every event handler and  *)
(* every resumption of an async handler after an await is one action.      *)
(*                                                                         *)
(* Text is a sequence of tokens: the characters that matter to the code    *)
(* (separators, white space, the quote) are one-character tokens, any      *)
(* other run of ordinary characters may be one token.                      *)
(*                                                                         *)
(* effects holds what the last step did to the outside world, in order:    *)
(* alert() calls, fetch() calls, console.error, localStorage writes and    *)
(* the file handed to the browser's download mechanism.                    *)
(***************************************************************************)
EXTENDS Integers, Sequences, FiniteSets, TLC

VARIABLES units, startDate, endDate, results, loading, progress,
          loginDialogOpen, hasCredentials, runs, discovers, probe, effects

vars == <<units, startDate, endDate, results, loading, progress,
          loginDialogOpen, hasCredentials, runs, discovers, probe, effects>>

form == <<units, startDate, endDate>>

(***************************************************************************)
(* Bounds of the model.                                                    *)
(***************************************************************************)
MaxUnitsLen == 1

MaxDiscovered == 2
\* longest raw text handed to the parser on its own
MaxRawLen == 4
\* most units in a batch handed to the aggregator on its own
MaxBatch == 3

(***************************************************************************)
(* Input domains.                                                          *)
(***************************************************************************)
Alphabet == {"a", ",", " "}

TextsOver(A, n) == UNION {[1..k -> A] : k \in 0..n}

UnitTexts == TextsOver(Alphabet, MaxUnitsLen)

StartDates == {"", "2024-01-01"}

EndDates == {"", "2024-01-31"}

(***************************************************************************)
(* Identifier parser: units.split(/[,;\n]/).map(u => u.trim())             *)
(*                         .filter(Boolean)                                *)
(***************************************************************************)
\* mutant: the semicolon is not a separator
IsCommaOrNewline(c) == c \in {",", "\n"}

\* /[,;\n]/
IsSeparator(c) == c \in {",", ";", "\n"}

\* the characters String.prototype.trim removes: WhiteSpace (TAB, VT, FF,
\* SP, NBSP, ZWNBSP and the other space separators) and LineTerminator
\* (LF, CR, LS, PS); a character outside the text escapes is one token
WhiteSpace ==
    {"\t", "<U+000B>", "\f", " ", "<U+00A0>", "<U+FEFF>", "<U+1680>",
     "<U+2000>", "<U+2001>", "<U+2002>", "<U+2003>", "<U+2004>", "<U+2005>",
     "<U+2006>", "<U+2007>", "<U+2008>", "<U+2009>", "<U+200A>", "<U+202F>",
     "<U+205F>", "<U+3000>"}

LineTerminator == {"\n", "\r", "<U+2028>", "<U+2029>"}

IsWhite(c) == c \in WhiteSpace \cup LineTerminator

RECURSIVE TrimStart(_)
TrimStart(s) ==
    IF s = <<>> THEN <<>>
    ELSE IF IsWhite(Head(s)) THEN TrimStart(Tail(s)) ELSE s

RECURSIVE TrimEnd(_)
TrimEnd(s) ==
    IF s = <<>> THEN <<>>
    ELSE IF IsWhite(s[Len(s)]) THEN TrimEnd(SubSeq(s, 1, Len(s) - 1)) ELSE s

trim(s) == TrimEnd(TrimStart(s))

RECURSIVE SplitAcc(_, _, _)
SplitAcc(s, piece, acc) ==
    IF s = <<>> THEN Append(acc, piece)
    ELSE IF IsSeparator(Head(s))
         THEN SplitAcc(Tail(s), <<>>, Append(acc, piece))
         ELSE SplitAcc(Tail(s), Append(piece, Head(s)), acc)

split(s) == SplitAcc(s, <<>>, <<>>)

MapTrim(pieces) == [k \in 1..Len(pieces) |-> trim(pieces[k])]

NonEmpty(piece) == piece # <<>>

unitList(u) == SelectSeq(MapTrim(split(u)), NonEmpty)

(***************************************************************************)
(* Natural numbers of any size, as sequences of limbs, least significant   *)
(* first, no zero limb at the top (zero is the empty sequence).            *)
(***************************************************************************)
LimbBits == 15

Base == 2^LimbBits

Limb(a, i) == IF i \in 1..Len(a) THEN a[i] ELSE 0

Normal(a) ==
    LET used == {i \in 1..Len(a) : a[i] # 0}
    IN  IF used = {} THEN <<>>
        ELSE SubSeq(a, 1, CHOOSE i \in used : \A j \in used : j <= i)

RECURSIVE NatOf(_)
NatOf(n) == IF n = 0 THEN <<>> ELSE <<n % Base>> \o NatOf(n \div Base)

RECURSIVE AddFrom(_, _, _, _)
AddFrom(a, b, i, carry) ==
    IF i > Len(a) /\ i > Len(b) THEN (IF carry = 0 THEN <<>> ELSE <<carry>>)
    ELSE LET sum == Limb(a, i) + Limb(b, i) + carry
         IN  <<sum % Base>> \o AddFrom(a, b, i + 1, sum \div Base)

NatAdd(a, b) == AddFrom(a, b, 1, 0)

\* a times k, for k below Base
RECURSIVE TimesFrom(_, _, _, _)
TimesFrom(a, k, i, carry) ==
    IF i > Len(a) THEN (IF carry = 0 THEN <<>> ELSE <<carry>>)
    ELSE LET prod == a[i] * k + carry
         IN  <<prod % Base>> \o TimesFrom(a, k, i + 1, prod \div Base)

NatTimes(a, k) == IF k = 0 THEN <<>> ELSE TimesFrom(a, k, 1, 0)

\* quotient and remainder of a by k, for k at most Base, from the top limb
RECURSIVE DivFrom(_, _, _, _)
DivFrom(a, k, i, rem) ==
    IF i = 0 THEN [q |-> <<>>, r |-> rem]
    ELSE LET cur == rem * Base + a[i]
             rest == DivFrom(a, k, i - 1, cur % k)
         IN  [q |-> Append(rest.q, cur \div k), r |-> rest.r]

NatDivMod(a, k) ==
    LET d == DivFrom(a, k, Len(a), 0) IN [q |-> Normal(d.q), r |-> d.r]

NatShiftLeft(a, n) ==
    IF a = <<>> THEN <<>>
    ELSE [i \in 1..(n \div LimbBits) |-> 0] \o NatTimes(a, 2^(n % LimbBits))

NatShiftRight(a, n) ==
    IF n \div LimbBits >= Len(a) THEN <<>>
    ELSE NatDivMod(SubSeq(a, n \div LimbBits + 1, Len(a)), 2^(n % LimbBits)).q

\* bit i of a, bit 0 the least significant
NatBit(a, i) == (Limb(a, i \div LimbBits + 1) \div 2^(i % LimbBits)) % 2

NatBitLen(a) ==
    IF a = <<>> THEN 0
    ELSE LimbBits * (Len(a) - 1)
         + (CHOOSE k \in 1..LimbBits : 2^(k - 1) <= a[Len(a)] /\ a[Len(a)] < 2^k)

\* the n lowest bits of a are zero
NatLowZero(a, n) ==
    /\ \A i \in 1..(n \div LimbBits) : Limb(a, i) = 0
    /\ Limb(a, n \div LimbBits + 1) % 2^(n % LimbBits) = 0

TrailingZeros(a) ==
    CHOOSE t \in 0..(NatBitLen(a) - 1) : NatBit(a, t) = 1 /\ NatLowZero(a, t)

DigitChar(d) == <<"0", "1", "2", "3", "4", "5", "6", "7", "8", "9">>[d + 1]

\* the decimal digits of a, none for zero
RECURSIVE NatDigits(_)
NatDigits(a) ==
    IF a = <<>> THEN <<>>
    ELSE LET d == NatDivMod(a, 10)
         IN  NatDigits(d.q) \o <<DigitChar(d.r)>>

RECURSIVE FromDigits(_)
FromDigits(ds) ==
    IF ds = <<>> THEN <<>>
    ELSE NatAdd(NatTimes(FromDigits(SubSeq(ds, 1, Len(ds) - 1)), 10),
                NatOf(ds[Len(ds)]))

(***************************************************************************)
(* The Number type: IEEE 754 binary64.  A finite non-negative number is    *)
(* m * 2^e with m below 2^53, kept with m odd (zero: m = 0, e = 0).  The   *)
(* sum of two numbers is their exact sum rounded to 53 significant bits,   *)
(* ties to the even significand.  Amounts are far from the ends of the     *)
(* exponent range: no overflow to Infinity, no subnormal.                  *)
(***************************************************************************)
SignificandBits == 53

Zero == [m |-> <<>>, e |-> 0]

IsZero(x) == x.m = <<>>

Canonical(m, e) ==
    IF m = <<>> THEN Zero
    ELSE [m |-> NatShiftRight(m, TrailingZeros(m)), e |-> e + TrailingZeros(m)]

RoundToNumber(m, e) ==
    IF NatBitLen(m) <= SignificandBits THEN Canonical(m, e)
    ELSE LET drop == NatBitLen(m) - SignificandBits
             kept == NatShiftRight(m, drop)
             up == /\ NatBit(m, drop - 1) = 1
                   /\ (~NatLowZero(m, drop - 1) \/ NatBit(kept, 0) = 1)
         IN  Canonical(IF up THEN NatAdd(kept, <<1>>) ELSE kept, e + drop)

\* x + y
NumberAdd(x, y) ==
    IF IsZero(x) THEN y
    ELSE IF IsZero(y) THEN x
    ELSE LET e == IF x.e < y.e THEN x.e ELSE y.e
         IN  RoundToNumber(NatAdd(NatShiftLeft(x.m, x.e - e),
                                  NatShiftLeft(y.m, y.e - e)), e)

\* the number whose significand is written in decimal digits, times 2^e
Number(digits, e) == Canonical(FromDigits(digits), e)

(***************************************************************************)
(* Unit results as the backend's JSON gives them: objects whose total,     *)
(* rows and error keys may be absent.  Amounts are Numbers, as JSON.parse  *)
(* reads them: 10.1 is 5685794529555251 * 2^-49.                           *)
(***************************************************************************)
Kg10p1 == Number(<<5, 6, 8, 5, 7, 9, 4, 5, 2, 9, 5, 5, 5, 2, 5, 1>>, -49)

Kg7p6 == Number(<<4, 2, 7, 8, 4, 1, 9, 6, 4, 6, 0, 0, 1, 9, 7, 1>>, -49)

Kg2p5 == Number(<<5>>, -1)

Kg2p4 == Number(<<5, 4, 0, 4, 3, 1, 9, 5, 5, 2, 8, 4, 4, 5, 9, 5>>, -51)

Day1 == [y |-> 2024, m |-> 1, d |-> 5]

Day2 == [y |-> 2024, m |-> 7, d |-> 1]

RowDates == {Day1, Day2}

\* a unit collected with two daily records
ROk(id) == [unit_id |-> id, total |-> Kg10p1,
            rows |-> <<[date |-> Day1, kg |-> Kg7p6], [date |-> Day2, kg |-> Kg2p5]>>,
            error |-> <<>>]

\* a failed unit as section 8 of the spec writes it: no total, no rows
RErr(id) == [unit_id |-> id, error |-> <<"timeout">>]

\* a unit that failed after a partial total; its message holds a quote and a comma
RPartial(id) == [unit_id |-> id, total |-> Kg2p4, rows |-> <<>>,
                 error |-> <<"x", "\"", ",", "\"", "y">>]

Outcomes(id) == {ROk(id), RErr(id), RPartial(id)}

\* The collection endpoint: one result per requested identifier, in the
\* order requested.
BackendResults(requested) ==
    LET n == Len(requested)
    IN  {a \in [1..n -> UNION {Outcomes(requested[k]) : k \in 1..n}] :
            \A k \in 1..n : a[k].unit_id = requested[k]}

Has(r, key) == key \in DOMAIN r

\* mutant: an entry with an error contributes nothing
TotalUnlessError(r) ==
    IF Has(r, "error") /\ r.error # <<>> THEN Zero
    ELSE IF Has(r, "total") THEN r.total ELSE Zero

\* r.total || 0
TotalOrZero(r) == IF Has(r, "total") /\ ~IsZero(r.total) THEN r.total ELSE Zero

\* the truth value of r.error
HasError(r) == Has(r, "error") /\ r.error # <<>>

NoError(r) == ~HasError(r)

(***************************************************************************)
(* Result aggregator (the three derived values of App's render).           *)
(***************************************************************************)
\* results.reduce((sum, r) => sum + (r.total || 0), 0)
RECURSIVE Reduce(_, _)
Reduce(rs, sum) ==
    IF rs = <<>> THEN sum
    ELSE Reduce(Tail(rs), NumberAdd(sum, TotalOrZero(Head(rs))))

totalKgOf(rs) == Reduce(rs, Zero)

successCountOf(rs) == Len(SelectSeq(rs, NoError))

errorCountOf(rs) == Len(SelectSeq(rs, HasError))

totalKg == totalKgOf(results)

successCount == successCountOf(results)

errorCount == errorCountOf(results)

(***************************************************************************)
(* Tabular exporter (utils/export.js).                                     *)
(***************************************************************************)
RECURSIVE Digits(_)
Digits(n) ==
    IF n < 10 THEN <<DigitChar(n)>>
    ELSE Digits(n \div 10) \o <<DigitChar(n % 10)>>

Pad2(n) == <<DigitChar((n \div 10) % 10), DigitChar(n % 10)>>

\* the integer n for which n / 100 - x is closest to zero, the larger of two
Hundredths(x) ==
    IF x.e >= 0 THEN NatShiftLeft(NatTimes(x.m, 100), x.e)
    ELSE NatShiftRight(NatAdd(NatTimes(x.m, 100), NatShiftLeft(<<1>>, -x.e - 1)),
                       -x.e)

\* Number.prototype.toFixed(2), for a finite non-negative x below 10^21
toFixed2(x) ==
    LET ds == NatDigits(Hundredths(x))
        padded == IF Len(ds) < 3 THEN [i \in 1..(3 - Len(ds)) |-> "0"] \o ds ELSE ds
    IN  SubSeq(padded, 1, Len(padded) - 2) \o <<".">>
        \o SubSeq(padded, Len(padded) - 1, Len(padded))

IsLeapYear(y) == (y % 4 = 0 /\ y % 100 # 0) \/ y % 400 = 0

DaysIn(y, m) ==
    IF m = 2 THEN (IF IsLeapYear(y) THEN 29 ELSE 28)
    ELSE IF m \in {4, 6, 9, 11} THEN 30 ELSE 31

PrevDay(date) ==
    IF date.d > 1 THEN [date EXCEPT !.d = date.d - 1]
    ELSE IF date.m > 1
         THEN [y |-> date.y, m |-> date.m - 1, d |-> DaysIn(date.y, date.m - 1)]
         ELSE [y |-> date.y - 1, m |-> 12, d |-> 31]

\* new Date(row.date).toLocaleDateString('pt-BR').  A date-only string is
\* midnight UTC of that day; what is printed is dd/mm/yyyy of the local
\* day at that instant: the day before where local time is then behind
\* UTC (west), the day itself elsewhere.
toLocaleDateString(date, west) ==
    LET local == IF west THEN PrevDay(date) ELSE date
    IN  Pad2(local.d) \o <<"/">> \o Pad2(local.m) \o <<"/">> \o Digits(local.y)

\* The browser's time zone, as far as the export reads it: the set of dates
\* at whose midnight UTC local time is behind UTC.  The offset is taken at
\* each instant, so a zone may hold one date and not another
\* (Atlantic/Azores: behind UTC in winter, at UTC in summer).
Zones == SUBSET RowDates

Behind(zone, date) == date \in zone

headers == << <<"Unidade">>, <<"Data">>, <<"Kg">>, <<"Total Unidade">>, <<"Erro">> >>

\* result.error || ''
ErrorText(r) == IF HasError(r) THEN r.error ELSE <<>>

HasRows(r) == Has(r, "rows") /\ Len(r.rows) > 0

\* the rows one result pushes; needs r.total (result.total.toFixed(2))
RowsOfResult(r, zone) ==
    IF HasRows(r)
    THEN [k \in 1..Len(r.rows) |->
            <<r.unit_id, toLocaleDateString(r.rows[k].date, Behind(zone, r.rows[k].date)),
              toFixed2(r.rows[k].kg), toFixed2(r.total), ErrorText(r)>>]
    ELSE << <<r.unit_id, <<>>, <<>>, toFixed2(r.total), ErrorText(r)>> >>

\* result.total.toFixed(2) throws a TypeError when total is absent
Throws(r) == ~Has(r, "total")

ExportThrows(rs) == \E k \in 1..Len(rs) : Throws(rs[k])

RECURSIVE ExportRows(_, _)
ExportRows(rs, zone) ==
    IF rs = <<>> THEN <<>>
    ELSE RowsOfResult(Head(rs), zone) \o ExportRows(Tail(rs), zone)

\* `"${cell}"`
QuoteCell(cell) == <<"\"">> \o cell \o <<"\"">>

RECURSIVE Join(_, _)
Join(parts, sep) ==
    IF parts = <<>> THEN <<>>
    ELSE IF Len(parts) = 1 THEN parts[1]
    ELSE parts[1] \o <<sep>> \o Join(Tail(parts), sep)

CsvLine(row) == Join([k \in 1..Len(row) |-> QuoteCell(row[k])], ",")

csvContent(rs, zone) ==
    LET rows == ExportRows(rs, zone)
    IN  Join(<<Join(headers, ",")>> \o [k \in 1..Len(rows) |-> CsvLine(rows[k])], "\n")

BOM == "<U+FEFF>"

Filename(start, end) ==
    <<"autolav_", start, "_", end, "_", "<getTime()>", ".csv">>

DownloadOf(rs, start, end, zone) ==
    [type |-> "download", filename |-> Filename(start, end),
     content |-> <<BOM>> \o csvContent(rs, zone)]

(***************************************************************************)
(* What a step does to the outside world.                                  *)
(***************************************************************************)
NoBody == [none |-> TRUE]

Alert(msg, detail) == [type |-> "alert", msg |-> msg, detail |-> detail]

ConsoleError(msg) == [type |-> "console.error", msg |-> msg]

Fetch(endpoint, body) == [type |-> "fetch", endpoint |-> endpoint, body |-> body]

Uncaught(msg) == [type |-> "uncaught", msg |-> msg]

StorageSet(config) == [type |-> "localStorage.setItem", value |-> config]

StorageRemove == [type |-> "localStorage.removeItem"]

(***************************************************************************)
(* Async handler invocations in flight.  pc is the await the invocation is *)
(* suspended at; unitList, data (data.results) and i are handleScrape's    *)
(* locals.                                                                 *)
(***************************************************************************)
RunAt(pc, list, data, i) == [pc |-> pc, unitList |-> list, data |-> data, i |-> i]

Remove(seq, k) == SubSeq(seq, 1, k - 1) \o SubSeq(seq, k + 1, Len(seq))

ZeroProgress == [current |-> 0, total |-> 0]

(***************************************************************************)
(* Initial state: App mounted, its effect run (the saved configuration,    *)
(* if any, loaded into the form; checkCredentials called).                 *)
(***************************************************************************)
Init ==
    /\ \/ \* nothing saved, or a saved configuration loaded into the form
          /\ units \in UnitTexts
          /\ startDate \in StartDates
          /\ endDate \in EndDates
          /\ effects = <<Fetch("/api/login", NoBody)>>
       \/ \* the saved text cannot be read: caught and logged
          /\ units = <<>>
          /\ startDate = ""
          /\ endDate = ""
          /\ effects = <<ConsoleError("Erro ao carregar configuracoes:"),
                         Fetch("/api/login", NoBody)>>
    /\ results = <<>>
    /\ loading = FALSE
    /\ progress = ZeroProgress
    /\ loginDialogOpen = FALSE
    /\ hasCredentials = FALSE
    /\ runs = <<>>
    /\ discovers = <<>>
    /\ probe = "fetch"

(***************************************************************************)
(* Form fields.                                                            *)
(***************************************************************************)
setUnits(text) ==
    /\ units' = text
    /\ effects' = <<>>
    /\ UNCHANGED <<startDate, endDate, results, loading, progress,
                   loginDialogOpen, hasCredentials, runs, discovers, probe>>

setStartDate(d) ==
    /\ startDate' = d
    /\ effects' = <<>>
    /\ UNCHANGED <<units, endDate, results, loading, progress,
                   loginDialogOpen, hasCredentials, runs, discovers, probe>>

setEndDate(d) ==
    /\ endDate' = d
    /\ effects' = <<>>
    /\ UNCHANGED <<units, startDate, results, loading, progress,
                   loginDialogOpen, hasCredentials, runs, discovers, probe>>

(***************************************************************************)
(* Session gate: checkCredentials (called once, by the mount effect) and   *)
(* the login dialog's callbacks.                                           *)
(***************************************************************************)
ProbeFetchResolves ==
    /\ probe = "fetch"
    /\ probe' = "json"
    /\ effects' = <<>>
    /\ UNCHANGED <<form, results, loading, progress, loginDialogOpen,
                   hasCredentials, runs, discovers>>

ProbeJsonResolves(has_credentials) ==
    /\ probe = "json"
    /\ probe' = "done"
    /\ hasCredentials' = has_credentials
    /\ effects' = <<>>
    /\ UNCHANGED <<form, results, loading, progress, loginDialogOpen,
                   runs, discovers>>

\* mutant: the catch block resets the flag
ProbeFailsResets ==
    /\ probe \in {"fetch", "json"}
    /\ probe' = "done"
    /\ hasCredentials' = FALSE
    /\ effects' = <<ConsoleError("Erro ao verificar credenciais:")>>
    /\ UNCHANGED <<form, results, loading, progress, loginDialogOpen,
                   runs, discovers>>

ProbeFails ==
    /\ probe \in {"fetch", "json"}
    /\ probe' = "done"
    /\ effects' = <<ConsoleError("Erro ao verificar credenciais:")>>
    /\ UNCHANGED <<form, results, loading, progress, loginDialogOpen,
                   hasCredentials, runs, discovers>>

OpenLoginDialog ==
    /\ loginDialogOpen' = TRUE
    /\ effects' = <<>>
    /\ UNCHANGED <<form, results, loading, progress, hasCredentials,
                   runs, discovers, probe>>

\* onOpenChange(false): the dialog closes itself
CloseLoginDialog ==
    /\ loginDialogOpen
    /\ loginDialogOpen' = FALSE
    /\ effects' = <<>>
    /\ UNCHANGED <<form, results, loading, progress, hasCredentials,
                   runs, discovers, probe>>

\* onSuccess: the dialog reports a successful login
LoginSuccess ==
    /\ hasCredentials' = TRUE
    /\ loginDialogOpen' = FALSE
    /\ effects' = <<>>
    /\ UNCHANGED <<form, results, loading, progress, runs, discovers, probe>>

(***************************************************************************)
(* Configuration buttons.                                                  *)
(***************************************************************************)
handleSaveConfig ==
    /\ effects' = <<StorageSet([units |-> units, startDate |-> startDate,
                                endDate |-> endDate]),
                    Alert("Configuracoes salvas!", <<>>)>>
    /\ UNCHANGED <<form, results, loading, progress, loginDialogOpen,
                   hasCredentials, runs, discovers, probe>>

handleClearConfig ==
    /\ units' = <<>>
    /\ startDate' = ""
    /\ endDate' = ""
    /\ results' = <<>>
    /\ effects' = <<StorageRemove>>
    /\ UNCHANGED <<loading, progress, loginDialogOpen, hasCredentials,
                   runs, discovers, probe>>

(***************************************************************************)
(* Guards of the handlers and of the buttons that call them.               *)
(***************************************************************************)
\* mutant: the credential check is skipped
CredentialsNeverMissing == FALSE

\* !hasCredentials
CredentialsMissing == ~hasCredentials

\* !units.trim()
UnitsMissing == trim(units) = <<>>

\* !startDate || !endDate
\* mutant: the period is not validated
PeriodNeverMissing == FALSE

PeriodMissing == startDate = "" \/ endDate = ""

\* mutant: the Run button stays enabled during a run
RunNeverDisabled == FALSE

\* <Button onClick={handleScrape} disabled={loading}>
RunDisabled == loading

\* <Button onClick={handleDiscoverUnits} disabled={loading}>
DiscoverDisabled == loading

\* <Button onClick={handleExportCSV} disabled={results.length === 0}>
ExportDisabled == Len(results) = 0

\* a click on a disabled button calls no handler
NoHandler ==
    /\ effects' = <<>>
    /\ UNCHANGED <<form, results, loading, progress, loginDialogOpen,
                   hasCredentials, runs, discovers, probe>>

(***************************************************************************)
(* handleDiscoverUnits.                                                    *)
(***************************************************************************)
DiscoverableIds == {<<"a">>}

DiscoverResponses ==
    {[units |-> [k \in 1..Len(ids) |-> [unit_id |-> ids[k]]], total |-> Len(ids)] :
        ids \in TextsOver(DiscoverableIds, MaxDiscovered)}

\* data.units.map(u => u.unit_id).join(',')
unitIds(data) == Join([k \in 1..Len(data.units) |-> data.units[k].unit_id], ",")

handleDiscoverUnits ==
    IF CredentialsMissing
    THEN /\ loginDialogOpen' = TRUE
         /\ effects' = <<Alert("Configure as credenciais de login primeiro!", <<>>)>>
         /\ UNCHANGED <<form, results, loading, progress, hasCredentials,
                        runs, discovers, probe>>
    ELSE /\ loading' = TRUE
         /\ discovers' = Append(discovers, [pc |-> "fetch"])
         /\ effects' = <<Fetch("/api/discover_units", NoBody)>>
         /\ UNCHANGED <<form, results, progress, loginDialogOpen,
                        hasCredentials, runs, probe>>

ClickDiscover == IF DiscoverDisabled THEN NoHandler ELSE handleDiscoverUnits

\* catch and finally of handleDiscoverUnits
DiscoverCatch(k, message) ==
    /\ loading' = FALSE
    /\ discovers' = Remove(discovers, k)
    /\ effects' = <<ConsoleError("Erro:"),
                    Alert("Erro ao descobrir unidades: ", message)>>
    /\ UNCHANGED <<form, results, progress, loginDialogOpen, hasCredentials,
                   runs, probe>>

DiscoverFetchRejects(k) ==
    /\ discovers[k].pc = "fetch"
    /\ DiscoverCatch(k, <<"Failed to fetch">>)

DiscoverFetchResolves(k, ok) ==
    /\ discovers[k].pc = "fetch"
    /\ IF ok
       THEN /\ discovers' = [discovers EXCEPT ![k].pc = "json"]
            /\ effects' = <<>>
            /\ UNCHANGED <<form, results, loading, progress, loginDialogOpen,
                           hasCredentials, runs, probe>>
       ELSE DiscoverCatch(k, <<"Erro ao descobrir unidades">>)

DiscoverJsonRejects(k) ==
    /\ discovers[k].pc = "json"
    /\ DiscoverCatch(k, <<"<SyntaxError>">>)

\* the body has no units array: data.units.map throws
DiscoverMalformed(k) ==
    /\ discovers[k].pc = "json"
    /\ DiscoverCatch(k, <<"<TypeError>">>)

DiscoverJsonResolves(k, data) ==
    /\ discovers[k].pc = "json"
    /\ units' = unitIds(data)
    /\ loading' = FALSE
    /\ discovers' = Remove(discovers, k)
    /\ effects' = <<Alert("unidades descobertas!", Digits(data.total))>>
    /\ UNCHANGED <<startDate, endDate, results, progress, loginDialogOpen,
                   hasCredentials, runs, probe>>

(***************************************************************************)
(* handleScrape.                                                           *)
(***************************************************************************)
RECURSIVE Dedupe(_)
Dedupe(list) ==
    IF list = <<>> THEN <<>>
    ELSE LET init == Dedupe(SubSeq(list, 1, Len(list) - 1))
             last == list[Len(list)]
         IN  IF \E k \in 1..Len(init) : init[k] = last THEN init
             ELSE Append(init, last)

\* mutant: the identifiers are deduplicated before dispatch
DedupedBody(u, start, end) ==
    [units |-> Dedupe(unitList(u)), start_date |-> start, end_date |-> end]

\* JSON.stringify({units: unitList, start_date: startDate, end_date: endDate})
ScrapeBody(u, start, end) ==
    [units |-> unitList(u), start_date |-> start, end_date |-> end]

\* mutant: the previous run's results are kept at dispatch
KeptResults == results

\* setResults([]) before dispatch
ClearedResults == <<>>

\* setProgress({current: 0, total: unitList.length})
DispatchProgress(u) == [current |-> 0, total |-> Len(unitList(u))]

\* mutant: one batch update instead of one per delivered result
BatchProgress(data, i) == [current |-> Len(data), total |-> Len(data)]

\* setProgress({current: i + 1, total: data.results.length})
StreamProgress(data, i) == [current |-> i + 1, total |-> Len(data)]

\* setResults(prev => [...prev, data.results[i]])
Delivered(prev, data, i) == Append(prev, data[i + 1])

handleScrape ==
    IF UnitsMissing
    THEN /\ effects' = <<Alert("Informe pelo menos uma unidade!", <<>>)>>
         /\ UNCHANGED <<form, results, loading, progress, loginDialogOpen,
                        hasCredentials, runs, discovers, probe>>
    ELSE IF PeriodMissing
    THEN /\ effects' = <<Alert("Informe o periodo (data inicio e fim)!", <<>>)>>
         /\ UNCHANGED <<form, results, loading, progress, loginDialogOpen,
                        hasCredentials, runs, discovers, probe>>
    ELSE IF CredentialsMissing
    THEN /\ loginDialogOpen' = TRUE
         /\ effects' = <<Alert("Configure as credenciais de login primeiro!", <<>>)>>
         /\ UNCHANGED <<form, results, loading, progress, hasCredentials,
                        runs, discovers, probe>>
    ELSE /\ loading' = TRUE
         /\ results' = ClearedResults
         /\ progress' = DispatchProgress(units)
         /\ runs' = Append(runs, RunAt("fetch", unitList(units), <<>>, 0))
         /\ effects' = <<Fetch("/api/scrape", ScrapeBody(units, startDate, endDate))>>
         /\ UNCHANGED <<form, loginDialogOpen, hasCredentials, discovers, probe>>

ClickRun == IF RunDisabled THEN NoHandler ELSE handleScrape

\* mutant: the run ends without releasing the running flag
FinallyKeepsLoading(k) ==
    /\ loading' = loading
    /\ progress' = ZeroProgress
    /\ runs' = Remove(runs, k)

\* finally { setLoading(false); setProgress({current: 0, total: 0}) }
ScrapeFinally(k) ==
    /\ loading' = FALSE
    /\ progress' = ZeroProgress
    /\ runs' = Remove(runs, k)

\* catch (error), then finally
ScrapeCatch(k, message) ==
    /\ ScrapeFinally(k)
    /\ effects' = <<ConsoleError("Erro:"),
                    Alert("Erro ao executar scraping: ", message)>>
    /\ UNCHANGED <<form, results, loginDialogOpen, hasCredentials,
                   discovers, probe>>

ScrapeFetchRejects(k) ==
    /\ runs[k].pc = "fetch"
    /\ ScrapeCatch(k, <<"Failed to fetch">>)

ScrapeFetchResolves(k, ok) ==
    /\ runs[k].pc = "fetch"
    /\ runs' = [runs EXCEPT ![k].pc = IF ok THEN "json" ELSE "text"]
    /\ effects' = <<>>
    /\ UNCHANGED <<form, results, loading, progress, loginDialogOpen,
                   hasCredentials, discovers, probe>>

\* bodies of a non-success response: empty, or some text
ResponseTexts == {<<>>, <<"<response text>">>}

\* !response.ok: the body text becomes the error message
ScrapeTextResolves(k, text) ==
    /\ runs[k].pc = "text"
    /\ ScrapeCatch(k, text)

ScrapeTextRejects(k) ==
    /\ runs[k].pc = "text"
    /\ ScrapeCatch(k, <<"<body read error>">>)

ScrapeJsonRejects(k) ==
    /\ runs[k].pc = "json"
    /\ ScrapeCatch(k, <<"<SyntaxError>">>)

\* the body has no results array: data.results.length throws
ScrapeMalformed(k) ==
    /\ runs[k].pc = "json"
    /\ ScrapeCatch(k, <<"<TypeError>">>)

\* one pass of the loop body up to its await, or the loop's exit
LoopFrom(k, data, i) ==
    IF i < Len(data)
    THEN /\ progress' = StreamProgress(data, i)
         /\ results' = Delivered(results, data, i)
         /\ runs' = [runs EXCEPT ![k] = RunAt("timer", runs[k].unitList, data, i)]
         /\ UNCHANGED loading
    ELSE /\ ScrapeFinally(k)
         /\ UNCHANGED results

ScrapeJsonResolves(k, data) ==
    /\ runs[k].pc = "json"
    /\ LoopFrom(k, data, 0)
    /\ effects' = <<>>
    /\ UNCHANGED <<form, loginDialogOpen, hasCredentials, discovers, probe>>

\* the 100 ms pacing timer of iteration i fires
TimerFires(k) ==
    /\ runs[k].pc = "timer"
    /\ LoopFrom(k, runs[k].data, runs[k].i + 1)
    /\ effects' = <<>>
    /\ UNCHANGED <<form, loginDialogOpen, hasCredentials, discovers, probe>>

(***************************************************************************)
(* handleExportCSV and exportToCSV; zone is the browser's time zone.        *)
(***************************************************************************)
exportToCSV(rs, start, end, zone) ==
    /\ effects' = IF ExportThrows(rs)
                  THEN <<Uncaught("<TypeError>")>>
                  ELSE <<DownloadOf(rs, start, end, zone)>>
    /\ UNCHANGED <<form, results, loading, progress, loginDialogOpen,
                   hasCredentials, runs, discovers, probe>>

handleExportCSV(zone) ==
    IF Len(results) = 0
    THEN /\ effects' = <<Alert("Nenhum resultado para exportar!", <<>>)>>
         /\ UNCHANGED <<form, results, loading, progress, loginDialogOpen,
                        hasCredentials, runs, discovers, probe>>
    ELSE exportToCSV(results, startDate, endDate, zone)

ClickExport(zone) == IF ExportDisabled THEN NoHandler ELSE handleExportCSV(zone)

(***************************************************************************)
(* The application.                                                        *)
(***************************************************************************)
ScrapeFailure(k) ==
    \/ ScrapeFetchRejects(k)
    \/ \E text \in ResponseTexts : ScrapeTextResolves(k, text)
    \/ ScrapeTextRejects(k)
    \/ ScrapeJsonRejects(k)
    \/ ScrapeMalformed(k)

Next ==
    \/ \E text \in UnitTexts : setUnits(text)
    \/ \E d \in StartDates : setStartDate(d)
    \/ \E d \in EndDates : setEndDate(d)
    \/ ProbeFetchResolves
    \/ \E b \in BOOLEAN : ProbeJsonResolves(b)
    \/ ProbeFails
    \/ OpenLoginDialog
    \/ CloseLoginDialog
    \/ LoginSuccess
    \/ handleSaveConfig
    \/ handleClearConfig
    \/ ClickDiscover
    \/ \E k \in 1..Len(discovers) : DiscoverFetchRejects(k)
    \/ \E k \in 1..Len(discovers), ok \in BOOLEAN : DiscoverFetchResolves(k, ok)
    \/ \E k \in 1..Len(discovers) : DiscoverJsonRejects(k)
    \/ \E k \in 1..Len(discovers) : DiscoverMalformed(k)
    \/ \E k \in 1..Len(discovers), data \in DiscoverResponses :
          DiscoverJsonResolves(k, data)
    \/ ClickRun
    \/ \E k \in 1..Len(runs) : ScrapeFetchRejects(k)
    \/ \E k \in 1..Len(runs), ok \in BOOLEAN : ScrapeFetchResolves(k, ok)
    \/ \E k \in 1..Len(runs), text \in ResponseTexts : ScrapeTextResolves(k, text)
    \/ \E k \in 1..Len(runs) : ScrapeTextRejects(k)
    \/ \E k \in 1..Len(runs) : ScrapeJsonRejects(k)
    \/ \E k \in 1..Len(runs) : ScrapeMalformed(k)
    \/ \E k \in 1..Len(runs) :
          \E data \in BackendResults(runs[k].unitList) : ScrapeJsonResolves(k, data)
    \/ \E k \in 1..Len(runs) : TimerFires(k)
    \/ \E zone \in Zones : ClickExport(zone)

Spec == Init /\ [][Next]_vars

(***************************************************************************)
(* Scheduling.  A run suspended at an await resumes when the awaited       *)
(* promise settles: the backend call resolves or rejects, the body is read *)
(* or fails to be read, the pacing timer fires.  The event loop runs every *)
(* settled continuation, so a run that can resume eventually does.         *)
(***************************************************************************)
RunStep(k) ==
    \/ ScrapeFailure(k)
    \/ \E ok \in BOOLEAN : ScrapeFetchResolves(k, ok)
    \/ \E data \in BackendResults(runs[k].unitList) : ScrapeJsonResolves(k, data)
    \/ TimerFires(k)

FairSpec == Spec /\ WF_vars(\E k \in 1..Len(runs) : RunStep(k))

(***************************************************************************)
(* The identifier parser on its own: the form holds any raw text, the      *)
(* period and the session are in order, and Run hands the text to the      *)
(* parser.                                                                 *)
(***************************************************************************)
RawAlphabet == {"a", "b", ",", ";", "\n", "\r", " "}

RawTexts == TextsOver(RawAlphabet, MaxRawLen)

ParserInit ==
    /\ units \in RawTexts
    /\ startDate = "2024-01-01"
    /\ endDate = "2024-01-31"
    /\ results = <<>>
    /\ loading = FALSE
    /\ progress = ZeroProgress
    /\ loginDialogOpen = FALSE
    /\ hasCredentials = TRUE
    /\ runs = <<>>
    /\ discovers = <<>>
    /\ probe = "done"
    /\ effects = <<>>

ParserNext == ClickRun

ParserSpec == ParserInit /\ [][ParserNext]_vars

(***************************************************************************)
(* The aggregator on its own: a run of up to MaxBatch units awaits its     *)
(* response; the response arrives and is streamed, the summary being       *)
(* recomputed at every delivery.                                           *)
(***************************************************************************)
BatchIds == {<<"a">>, <<"b">>}

Batches == TextsOver(BatchIds, MaxBatch)

BatchInit ==
    /\ \E ids \in Batches :
          /\ ids # <<>>
          /\ units = Join(ids, ",")
          /\ runs = <<RunAt("json", ids, <<>>, 0)>>
          /\ progress = [current |-> 0, total |-> Len(ids)]
    /\ startDate = "2024-01-01"
    /\ endDate = "2024-01-31"
    /\ results = <<>>
    /\ loading = TRUE
    /\ loginDialogOpen = FALSE
    /\ hasCredentials = TRUE
    /\ discovers = <<>>
    /\ probe = "done"
    /\ effects = <<>>

BatchNext ==
    \/ \E k \in 1..Len(runs) :
          \E data \in BackendResults(runs[k].unitList) : ScrapeJsonResolves(k, data)
    \/ \E k \in 1..Len(runs) : TimerFires(k)

BatchSpec == BatchInit /\ [][BatchNext]_vars

(***************************************************************************)
(* Claims.                                                                 *)
(***************************************************************************)
Streaming(k) == runs[k].pc = "timer"

AwaitingBackend(k) == runs[k].pc \in {"fetch", "text", "json"}

C1_State ==
    \A k \in 1..Len(runs) :
        /\ AwaitingBackend(k) => progress.current = 0
        /\ Streaming(k) =>
              /\ progress.current = runs[k].i + 1
              /\ progress.current \in 1..Len(runs[k].data)
              /\ progress.total = Len(runs[k].data)

C1_Step ==
    /\ \A k \in 1..Len(runs) :
          \* the response arrives: total was already N, the first update is (1, N)
          /\ \A data \in BackendResults(runs[k].unitList) :
                ScrapeJsonResolves(k, data) =>
                    /\ progress = [current |-> 0, total |-> Len(data)]
                    /\ progress' = IF data = <<>> THEN ZeroProgress
                                   ELSE [current |-> 1, total |-> Len(data)]
          \* a pacing timer fires: the next update, or the end after the N-th
          /\ TimerFires(k) =>
                IF progress.current < progress.total
                THEN progress' = [progress EXCEPT !.current = progress.current + 1]
                ELSE progress' = ZeroProgress /\ ~loading'
    \* nothing else touches the counter of a run in progress
    /\ (loading /\ progress' # progress) =>
          \E k \in 1..Len(runs) :
              \/ ScrapeFailure(k)
              \/ TimerFires(k)
              \/ \E data \in BackendResults(runs[k].unitList) : ScrapeJsonResolves(k, data)

\* C1: a run whose response carries N results makes exactly N progress
\* updates while streaming, the k-th setting current = k, and total is N in
\* every state of the run from dispatch to its end.
C1_ProgressPerResult == [](C1_State) /\ [][C1_Step]_vars

\* the second of two results has just been delivered
C1_Witness ==
    \E k \in 1..Len(runs) :
        /\ Streaming(k)
        /\ Len(runs[k].data) = 2
        /\ progress = [current |-> 2, total |-> 2]

IsScrapeFetch(e) == e.type = "fetch" /\ e.endpoint = "/api/scrape"

IsDiscoverFetch(e) == e.type = "fetch" /\ e.endpoint = "/api/discover_units"

IsScrapeErrorAlert(e) == e.type = "alert" /\ e.msg = "Erro ao executar scraping: "

IsCredentialAlert(e) ==
    e.type = "alert" /\ e.msg = "Configure as credenciais de login primeiro!"

Some(es, P(_)) == \E j \in 1..Len(es) : P(es[j])

C2_State == \A k \in 1..Len(runs) : AwaitingBackend(k) => results = <<>>

C2_Step ==
    \A k \in 1..Len(runs) :
        ScrapeFailure(k) =>
            /\ results = <<>> /\ results' = <<>>
            /\ ~loading'
            /\ progress' = ZeroProgress
            /\ runs' = <<>>
            /\ Some(effects', IsScrapeErrorAlert)

\* C2: a run whose backend call fails at the network level (fetch rejects,
\* non-success response, unreadable body) never delivers a result: results
\* is empty from dispatch until after the run's end, the run ends with
\* loading false and progress (0, 0), and the error message is alerted.
C2_TransportErrorLeavesNothing == [](C2_State) /\ [][C2_Step]_vars

\* a run has just failed
C2_Witness ==
    /\ Some(effects, IsScrapeErrorAlert)
    /\ ~loading /\ results = <<>> /\ progress = ZeroProgress

(***************************************************************************)
(* The summary as the specification words it.                              *)
(***************************************************************************)
ErrorEntries(rs) ==
    {j \in 1..Len(rs) : "error" \in DOMAIN rs[j] /\ Len(rs[j].error) > 0}

\* the entries' totals added up as Numbers, first to last
RECURSIVE SumOfTotals(_)
SumOfTotals(rs) ==
    IF Len(rs) = 0 THEN Zero
    ELSE NumberAdd(SumOfTotals(SubSeq(rs, 1, Len(rs) - 1)),
                   IF "total" \in DOMAIN rs[Len(rs)] THEN rs[Len(rs)].total ELSE Zero)

AllDelivered(k) == Streaming(k) /\ runs[k].i + 1 = Len(runs[k].data)

\* C3: a unit-level failure never aborts a run: all N entries of the
\* response are delivered in order, and when the run completes errorCount is
\* the number of entries with an error, successCount is N - errorCount and
\* grandTotal is the sum of the entries' totals.
C3_UnitErrorsDelivered ==
    \A k \in 1..Len(runs) :
        (AllDelivered(k) /\ ErrorEntries(runs[k].data) # {}) =>
            /\ results = runs[k].data
            /\ errorCount = Cardinality(ErrorEntries(runs[k].data))
            /\ successCount = Len(runs[k].data) - Cardinality(ErrorEntries(runs[k].data))
            /\ totalKg = SumOfTotals(runs[k].data)

\* C4: no collection request is sent with an empty units list or with an
\* empty start or end date.
C4_NoEmptyRequest ==
    \A j \in 1..Len(effects) :
        IsScrapeFetch(effects[j]) =>
            /\ effects[j].body.units # <<>>
            /\ effects[j].body.start_date # ""
            /\ effects[j].body.end_date # ""

\* C5: no collection or discovery request is sent while hasCredentials is
\* false; when the credential check rejects the operation the login dialog
\* is open, loading is false and nothing was sent.
C5_SessionGate ==
    /\ (Some(effects, IsScrapeFetch) \/ Some(effects, IsDiscoverFetch)) => hasCredentials
    /\ Some(effects, IsCredentialAlert) =>
          /\ ~hasCredentials
          /\ loginDialogOpen
          /\ ~loading
          /\ effects = <<Alert("Configure as credenciais de login primeiro!", <<>>)>>

\* the credential check has just rejected a Run whose form was valid
C5_Witness ==
    /\ Some(effects, IsCredentialAlert)
    /\ ~UnitsMissing /\ ~PeriodMissing
    /\ loginDialogOpen

C6_State ==
    /\ Len(runs) + Len(discovers) <= 1
    /\ loading <=> (Len(runs) + Len(discovers) = 1)

C6_Step ==
    (loading /\ (ClickRun \/ ClickDiscover)) =>
        /\ results' = results
        /\ progress' = progress
        /\ runs' = runs
        /\ discovers' = discovers
        /\ effects' = <<>>

\* C6: at most one run (or discovery) is in flight at any time, and a Run
\* or Discover attempt while loading is true is rejected, changing neither
\* results nor progress.
C6_NoConcurrentRuns == [](C6_State) /\ [][C6_Step]_vars

\* a run is streaming while the form and the session would let one start
C6_Witness ==
    /\ Len(runs) = 1 /\ Streaming(1)
    /\ loading
    /\ ~UnitsMissing /\ ~PeriodMissing /\ hasCredentials

C7_Step ==
    \* a run that passes validation starts, with exactly one request
    /\ (ClickRun /\ ~loading /\ trim(units) # <<>> /\ startDate # ""
          /\ endDate # "" /\ hasCredentials) => Len(runs') = Len(runs) + 1
    /\ Len(runs') > Len(runs) =>
          /\ Len(runs') = Len(runs) + 1
          /\ SelectSeq(effects', IsScrapeFetch) =
                <<Fetch("/api/scrape", [units |-> unitList(units),
                                        start_date |-> startDate,
                                        end_date |-> endDate])>>
    \* no other step of a run sends one
    /\ Some(effects', IsScrapeFetch) => Len(runs') > Len(runs)

\* C7: each run that passes validation sends exactly one collection request,
\* carrying the parsed identifiers in order, duplicates included, and the
\* dates as entered; no later step of the run sends another.
C7_OneRequestPerRun == [][C7_Step]_vars

\* a request carrying a duplicated identifier has just been sent
C7_Witness ==
    \E j \in 1..Len(effects) :
        /\ IsScrapeFetch(effects[j])
        /\ effects[j].body.units = << <<"a">>, <<"a">> >>
        /\ Len(runs) = 1

(***************************************************************************)
(* A quoted-CSV reader (RFC 4180): fields are separated by commas, records *)
(* by line breaks; a field may be wrapped in double quotes, inside which   *)
(* commas and line breaks are data and a doubled quote is one quote.  A    *)
(* comma or line break is a separator exactly when an even number of       *)
(* quotes precedes it.                                                     *)
(***************************************************************************)
QuotesBefore(text, p) == Cardinality({q \in 1..(p - 1) : text[q] = "\""})

Outside(text, p) == QuotesBefore(text, p) % 2 = 0

\* the pieces of text[from..] between the positions in breaks
RECURSIVE PiecesFrom(_, _, _)
PiecesFrom(text, breaks, from) ==
    LET ahead == {p \in breaks : p >= from}
    IN  IF ahead = {} THEN <<SubSeq(text, from, Len(text))>>
        ELSE LET p == CHOOSE q \in ahead : \A r \in ahead : q <= r
             IN  <<SubSeq(text, from, p - 1)>> \o PiecesFrom(text, breaks, p + 1)

RECURSIVE Undouble(_)
Undouble(f) ==
    IF f = <<>> THEN <<>>
    ELSE IF Len(f) >= 2 /\ f[1] = "\"" /\ f[2] = "\""
         THEN <<"\"">> \o Undouble(SubSeq(f, 3, Len(f)))
         ELSE <<f[1]>> \o Undouble(Tail(f))

Unquote(f) ==
    IF Len(f) >= 2 /\ f[1] = "\"" /\ f[Len(f)] = "\""
    THEN Undouble(SubSeq(f, 2, Len(f) - 1))
    ELSE f

ParseRecord(line) ==
    LET commas == {p \in 1..Len(line) : line[p] = "," /\ Outside(line, p)}
        fields == PiecesFrom(line, commas, 1)
    IN  [k \in 1..Len(fields) |-> Unquote(fields[k])]

ParseCsv(text) ==
    LET breaks == {p \in 1..Len(text) : text[p] = "\n" /\ Outside(text, p)}
        lines == PiecesFrom(text, breaks, 1)
    IN  [k \in 1..Len(lines) |-> ParseRecord(lines[k])]

\* the text of a downloaded file after its byte-order mark
Table(file) == Tail(file.content)

Lines(text) == PiecesFrom(text, {p \in 1..Len(text) : text[p] = "\n"}, 1)

IsExportOutcome(e) == e.type \in {"download", "uncaught"}

DataRowCount(rs, k) ==
    IF "rows" \in DOMAIN rs[k] /\ Len(rs[k].rows) > 0 THEN Len(rs[k].rows) ELSE 1

RECURSIVE ExpectedDataRows(_, _)
ExpectedDataRows(rs, k) ==
    IF k = 0 THEN 0 ELSE ExpectedDataRows(rs, k - 1) + DataRowCount(rs, k)

\* the cells handed to the writer, one row per record or one per unit;
\* the record's own date is the one printed where no date is behind UTC
RECURSIVE ExpectedCells(_, _, _)
ExpectedCells(rs, k, zone) ==
    IF k = 0 THEN <<>>
    ELSE LET r == rs[k]
             total == IF "total" \in DOMAIN r THEN toFixed2(r.total) ELSE <<>>
             error == IF "error" \in DOMAIN r THEN r.error ELSE <<>>
         IN  ExpectedCells(rs, k - 1, zone) \o
             (IF "rows" \in DOMAIN r /\ Len(r.rows) > 0
              THEN [j \in 1..Len(r.rows) |->
                      <<r.unit_id, toLocaleDateString(r.rows[j].date, r.rows[j].date \in zone),
                        toFixed2(r.rows[j].kg), total, error>>]
              ELSE << <<r.unit_id, <<>>, <<>>, total, error>> >>)

\* C8: exporting any result sequence emits one header row and then, unit by
\* unit in order, one data row per daily record of a unit with rows and
\* exactly one data row for a unit whose rows are empty or absent: the sum
\* over units of max(1, |rows|) data rows.
C8_RowStructure ==
    (effects # <<>> /\ IsExportOutcome(effects[1])) =>
        /\ effects[1].type = "download"
        /\ LET lines == Lines(Table(effects[1]))
               cells == ExpectedCells(results, Len(results), {})
           IN  /\ Len(lines) = 1 + ExpectedDataRows(results, Len(results))
               /\ lines[1] = Join(headers, ",")
               /\ \A k \in 2..Len(lines) :
                     lines[k] = Join([c \in 1..5 |-> <<"\"">> \o cells[k - 1][c] \o <<"\"">>], ",")

\* C9: reading the exported table with a quoted-CSV reader gives back the
\* rows that were written: as many rows, five fields each, every field equal
\* to the value written, also when a value holds a comma, a quote or a line
\* break.
C9_EscapingRoundTrip ==
    \A j \in 1..Len(effects) :
        effects[j].type = "download" =>
            \E zone \in Zones :
                ParseCsv(Table(effects[j])) =
                    <<headers>> \o ExpectedCells(results, Len(results), zone)

\* C10: for the current result sequence, unitCount is its length,
\* successCount the number of entries with an empty error, errorCount is
\* unitCount - successCount, and grandTotal the sum of every entry's total,
\* entries with an error included, whether or not rows is populated.
C10_Summary ==
    /\ successCount = Len(results) - Cardinality(ErrorEntries(results))
    /\ errorCount = Len(results) - successCount
    /\ successCount + errorCount = Len(results)
    /\ totalKg = SumOfTotals(results)

\* a failed unit with a partial total stands beside a collected one
C10_Witness ==
    /\ Len(results) = 2
    /\ errorCount = 1
    /\ \E j \in 1..2 : HasError(results[j]) /\ Has(results[j], "total") /\ results[j].total = Kg2p4
    /\ \E j \in 1..2 : ~HasError(results[j]) /\ results[j].total = Kg10p1
    /\ toFixed2(totalKg) = <<"1", "2", ".", "5", "0">>

RunInFlight == Len(runs) > 0

Idle == Len(runs) = 0 /\ ~loading /\ progress = ZeroProgress

\* C11: every run that starts eventually ends, whether it completes, the
\* backend call fails or the response is malformed: loading is false and
\* progress is (0, 0) again, and from there the Run button starts a run.
C11_RunEnds == RunInFlight ~> (Idle /\ ~RunDisabled)

\* a run of two results has completed
C11_Witness ==
    /\ Idle /\ ~RunDisabled
    /\ Len(results) = 2
    /\ effects = <<>>

IsProbeFetch(e) == e.type = "fetch" /\ e.endpoint = "/api/login"

C12_Step ==
    \* each reported login success queries the probe again
    /\ LoginSuccess => Some(effects', IsProbeFetch)
    \* the flag changes only when a probe's answer arrives
    /\ hasCredentials' # hasCredentials =>
          \E b \in BOOLEAN : ProbeJsonResolves(b)

\* C12: the credential probe is queried once at startup and once again
\* each time the login dialog reports success, and hasCredentials changes
\* only as the outcome of such a probe.
C12_ProbeOnLogin == [][C12_Step]_vars

C12_AmendedStep ==
    \* no step queries the probe again, a reported login success included
    /\ ~Some(effects', IsProbeFetch)
    /\ LoginSuccess => hasCredentials'
    \* the flag changes when the probe's answer arrives or a login succeeds
    /\ hasCredentials' # hasCredentials =>
          \/ \E b \in BOOLEAN : ProbeJsonResolves(b)
          \/ LoginSuccess

\* C12 as amended: the credential probe is queried exactly once, at
\* startup; a reported login success sets hasCredentials to true without
\* querying it again; hasCredentials changes only as the outcome of the
\* startup probe or of a reported login success.
C12_ProbeAtStartupOnly ==
    /\ Len(SelectSeq(effects, IsProbeFetch)) = 1
    /\ [][C12_AmendedStep]_vars

\* a login succeeded while the startup probe is still unanswered
C12_Witness == hasCredentials /\ ~loginDialogOpen /\ probe = "fetch"

(***************************************************************************)
(* The reference parser, by positions: cut at every comma, semicolon and   *)
(* line break, keep of each piece what lies between its first and last     *)
(* non-blank character, drop the pieces with nothing left.                 *)
(***************************************************************************)
Blank(c) == c \in WhiteSpace \/ c \in LineTerminator

RefTrim(piece) ==
    LET inked == {p \in 1..Len(piece) : ~Blank(piece[p])}
    IN  IF inked = {} THEN <<>>
        ELSE SubSeq(piece,
                    CHOOSE p \in inked : \A q \in inked : p <= q,
                    CHOOSE p \in inked : \A q \in inked : p >= q)

RefParse(raw) ==
    LET cuts == {p \in 1..Len(raw) : raw[p] \in {",", ";", "\n"}}
        pieces == PiecesFrom(raw, cuts, 1)
    IN  SelectSeq([k \in 1..Len(pieces) |-> RefTrim(pieces[k])],
                  LAMBDA piece : Len(piece) > 0)

WellFormedId(id) ==
    /\ Len(id) > 0
    /\ ~Blank(id[1]) /\ ~Blank(id[Len(id)])
    /\ \A p \in 1..Len(id) : id[p] \notin {",", ";", "\n"}

\* C13: the parsed list equals the reference (split on comma, semicolon or
\* newline, trim each piece, drop the empty ones): no empty and no padded
\* identifier, order and duplicates kept, empty input gives the empty list;
\* the list a run sends is that list.
C13_Parser ==
    /\ unitList(units) = RefParse(units)
    /\ \A k \in 1..Len(unitList(units)) : WellFormedId(unitList(units)[k])
    /\ units = <<>> => unitList(units) = <<>>
    /\ \A k \in 1..Len(runs) : runs[k].unitList = RefParse(units)

\* a run was started from a padded text that names one unit twice
C13_Witness ==
    /\ units = <<" ", "a", ";", "a">>
    /\ Len(runs) = 1
    /\ runs[1].unitList = << <<"a">>, <<"a">> >>

Perms(n) == {f \in [1..n -> 1..n] : \A i, j \in 1..n : f[i] = f[j] => i = j}

Permuted(rs, f) == [k \in 1..Len(rs) |-> rs[f[k]]]

\* C14: the summary does not depend on the order of the sequence: for
\* every permutation of the current results, unitCount, successCount,
\* errorCount and grandTotal are those of the sequence itself.
C14_OrderInsensitive ==
    \A f \in Perms(Len(results)) :
        LET shuffled == Permuted(results, f)
        IN  /\ Len(shuffled) = Len(results)
            /\ successCountOf(shuffled) = successCount
            /\ errorCountOf(shuffled) = errorCount
            /\ totalKgOf(shuffled) = totalKg

\* C15: while a run is in progress the delivered results are a prefix, in
\* order, of the run's response, as long as progress.current, and the whole
\* response once the last entry is delivered, whatever the operator does
\* meanwhile.
C15_OnlyOrchestratorMutates ==
    \A k \in 1..Len(runs) :
        /\ AwaitingBackend(k) => results = <<>>
        /\ Streaming(k) =>
              /\ Len(results) = progress.current
              /\ results = SubSeq(runs[k].data, 1, progress.current)
              /\ AllDelivered(k) => results = runs[k].data

\* the lines of the table written for the sequence rs
ExpectedLines(rs) ==
    LET cells == ExpectedCells(rs, Len(rs), {})
    IN  <<Join(headers, ",")>> \o
        [k \in 1..Len(cells) |->
            Join([c \in 1..5 |-> <<"\"">> \o cells[k][c] \o <<"\"">>], ",")]

C16_Step ==
    (\E zone \in Zones : ClickExport(zone)) =>
        \* the export leaves the run alone
        /\ results' = results /\ progress' = progress /\ loading' = loading
        /\ runs' = runs
        \* with something delivered, also mid-run, it writes what was
        \* delivered when it was invoked
        /\ Len(results) > 0 =>
              /\ Len(effects') = 1
              /\ effects'[1].type = "download"
              /\ Lines(Table(effects'[1])) = ExpectedLines(results)

\* C16: export may be invoked at any time, also while a run is streaming;
\* the rows it emits are those of the result sequence as delivered when it
\* was invoked, and it changes neither the results, nor the progress
\* counter, nor the running flag.
C16_ExportSnapshot == [][C16_Step]_vars

InvalidForm == trim(units) = <<>> \/ startDate = "" \/ endDate = "" \/ ~hasCredentials

C17_State ==
    \* no run without the running flag, and then no progress
    /\ ~loading => (runs = <<>> /\ progress = ZeroProgress)
    \* what is shown during a run was delivered by that run
    /\ \A k \in 1..Len(runs) :
          Streaming(k) =>
              \E j \in 1..(runs[k].i + 2) :
                  results = SubSeq(runs[k].data, j, runs[k].i + 1)

C17_Step ==
    (ClickRun /\ ~loading) =>
        IF InvalidForm
        THEN /\ ~Some(effects', IsScrapeFetch)
             /\ Some(effects', LAMBDA e : e.type = "alert")
             /\ ~loading' /\ progress' = ZeroProgress
             /\ results' = results
             /\ runs' = runs
        ELSE /\ results' = <<>>
             /\ Some(effects', IsScrapeFetch)

\* C17: a validation failure of handleScrape (no units, a missing date, no
\* credentials) sends nothing and leaves loading false, progress (0, 0) and
\* the previous run's results in place; a run that passes validation empties
\* the results before dispatch, so a run only ever shows its own results.
C17_ValidationFrame == [](C17_State) /\ [][C17_Step]_vars

\* Run was refused for a missing date and the previous results are kept
C17_Witness ==
    /\ Len(results) > 0
    /\ ~loading
    /\ effects = <<Alert("Informe o periodo (data inicio e fim)!", <<>>)>>

C18_Step ==
    \* a reported login success sets the flag
    /\ LoginSuccess => hasCredentials'
    \* and nothing resets it afterwards, the answer of the startup probe
    \* included, in whatever order the two arrive
    /\ hasCredentials => hasCredentials'
    \* a failed probe leaves the flag as it is
    /\ ProbeFails => hasCredentials' = hasCredentials

\* C18: once the login dialog has reported success hasCredentials stays
\* true, whatever the order in which the startup probe's answer and the
\* login callback arrive, and a failed probe never changes the flag.
C18_LoginSticks == [][C18_Step]_vars

IsUncaught(e) == e.type = "uncaught"

IsDownload(e) == e.type = "download"

C19_Step ==
    (\E zone \in Zones : ClickExport(zone)) =>
        IF Len(results) = 0
        \* nothing to export: refused, nothing handed to the sink
        THEN ~Some(effects', IsDownload) /\ ~Some(effects', IsUncaught)
        \* otherwise the export completes, with a row for every unit
        ELSE /\ ~Some(effects', IsUncaught)
             /\ \E j \in 1..Len(effects') :
                   /\ IsDownload(effects'[j])
                   /\ Len(ParseCsv(Table(effects'[j]))) >= 1 + Len(results)
                   /\ \A k \in 1..Len(results) :
                         \E row \in 2..Len(ParseCsv(Table(effects'[j]))) :
                             ParseCsv(Table(effects'[j]))[row][1] = results[k].unit_id

\* C19: exporting never fails on a delivered result sequence: for every
\* non-empty sequence, entries without total or rows included, exportToCSV
\* completes and emits a row for every unit; with no results the export is
\* refused and no file is produced.
C19_ExportNeverFails == [][C19_Step]_vars

====
